---- MODULE Spec2Model ----
(***************************************************************************)
(* Model of PTCClient.execute (packages/ptc/src/index.ts): the host-side   *)
(* orchestrator, the stdout sentinel parser, handleToolRequest, and the    *)
(* generated in-sandbox runtime (__ptc_call) and entry program (main.ts).  *)
(*                                                                         *)
(* Text is modelled as a sequence of tokens.  A token is one of the three  *)
(* sentinel markers, the newline, or one character of an id or payload:    *)
(*   "R" = __PTC_TOOL_REQUEST__   "F" = __PTC_FINAL__   "E" = __PTC_ERROR__*)
(*   "NL" = \n                                                             *)
(* The host runs on a single-threaded event loop: every action below is    *)
(* one task of that loop (a callback with the microtasks it triggers).     *)
(***************************************************************************)
EXTENDS Integers, Sequences, FiniteSets, TLC

\* ------------------------------------------------------------------ bounds
\* number of tool calls the sandboxed program may make
MaxCalls == 1
\* largest maxRecursionLimit a client is constructed with
MaxLimit == 1
\* number of lines the agent's code may print itself with console.log
MaxPrints == 1
\* number of times the program repeats its last call of a tool
MaxRepeats == 1
MaxPeerRequests == 1

\* ------------------------------------------------------------------ text
NL == "NL"
Markers == {"R", "F", "E"}
Digits == {"1", "2"}

\* index of the first element of s at or after position i that is NL, or
\* Len(s)+1: the end of the line that position i is on
RECURSIVE LineEnd(_, _)
LineEnd(s, i) ==
  IF i > Len(s) THEN Len(s) + 1
  ELSE IF s[i] = NL THEN i
  ELSE LineEnd(s, i + 1)

\* positions at which the regex /<marker>([^\n]+)/ (or /<marker>(.+)/)
\* matches: the marker followed by at least one character that is not \n
MatchPositions(s, marker) ==
  { i \in 1..Len(s) : s[i] = marker /\ i < Len(s) /\ s[i + 1] # NL }

HasMatch(s, marker) == MatchPositions(s, marker) # {}

\* String.prototype.match without the g flag: the leftmost match
FirstMatch(s, marker) ==
  CHOOSE i \in MatchPositions(s, marker) :
    \A j \in MatchPositions(s, marker) : i <= j

\* capture group 1: greedy, everything up to the end of the line
Capture(s, marker) ==
  LET i == FirstMatch(s, marker)
  IN  SubSeq(s, i + 1, LineEnd(s, i + 1) - 1)

\* stdoutBuffer.replace(/__PTC_TOOL_REQUEST__[^\n]+\n?/, ''): removes the
\* leftmost match and the newline that follows it, if there is one
RemoveFirstRequest(s) ==
  LET i == FirstMatch(s, "R")
      e == LineEnd(s, i + 1)
      last == IF e <= Len(s) THEN e ELSE Len(s)
  IN  SubSeq(s, 1, i - 1) \o SubSeq(s, last + 1, Len(s))

\* ------------------------------------------------------------------ JSON
\* message values that the entry program puts into {"message": ...}:
\*   mTimeout  "Tool request timeout: <tool> after 60000ms"  (index.ts:203)
\*   mToolErr  "Tool call error: <error>"                     (index.ts:168)
\*   mUser     any other string thrown by the agent's code
\*   m5        a truthy value that is not a string (throw {message: 5})
\*   mCircular the TypeError of JSON.stringify for a circular structure
\* and with the prefixes of the entry program's .catch (index.ts:319-323):
\*   mExecTimeout  "Tool execution timeout: " + mTimeout
\*   mRuntime      "Runtime error: " + any other message
MsgTokens == {"mTimeout", "mToolErr", "mUser", "m5", "mExecTimeout", "mRuntime"}

AllDigits(p) == Len(p) > 0 /\ \A i \in 1..Len(p) : p[i] \in Digits

IsMessageObject(p) == Len(p) = 3 /\ p[1] = "{" /\ p[2] \in MsgTokens /\ p[3] = "}"

\* JSON.parse(p) returns (does not throw): the texts of the model that are
\* complete JSON values are null, a number and {"message": m}
JSONParses(p) == p = <<"null">> \/ AllDigits(p) \/ IsMessageObject(p)

\* ------------------------------------------------------------------ results
\* PTCExecuteResponse (types.ts:51-61).  tmpl names the template of the
\* error text, n the number interpolated in it, payload the parsed value
\* (success) or the message taken from the error sentinel.
Response(ok, tmpl, payload, n) ==
  [success |-> ok, tmpl |-> tmpl, payload |-> payload, n |-> n]

Null == Response(FALSE, "null", <<>>, 0)

\* constructor default of options.timeoutMs (index.ts:25)
timeoutMs == 30000

\* index.ts:657
FinalSuccess(p) == Response(TRUE, "result", p, 0)
\* index.ts:667-670
FinalParseFailed == Response(FALSE, "FailedToParseFinal", <<>>, 0)
\* index.ts:633-636
LimitError(limit) == Response(FALSE, "ToolCallLimit", <<>>, limit)
\* index.ts:680-683: errorData.message || 'Unknown error'
SentinelError(p) ==
  IF IsMessageObject(p) THEN Response(FALSE, "Sentinel", <<p[2]>>, 0)
  ELSE Response(FALSE, "UnknownError", <<>>, 0)
\* index.ts:693-696
ErrorInSandbox == Response(FALSE, "ErrorInSandbox", <<>>, 0)
\* index.ts:737-741, 763-767: the output of parseCompilerError
Classified == Response(FALSE, "Classified", <<>>, 0)
\* index.ts:746: the number of characters of stdoutBuffer in the message
StdoutShown == 1000
\* s.substring(0, n)
Substring(s, n) == SubSeq(s, 1, IF Len(s) < n THEN Len(s) ELSE n)
\* index.ts:744-747: the message ends with stdoutBuffer.substring(0, 1000)
NoFinalMarker(buf) ==
  Response(FALSE, "NoFinalMarker", Substring(buf, StdoutShown), 0)
\* index.ts:757-760
CommandTimedOut == Response(FALSE, "CommandTimedOut", <<>>, timeoutMs)
\* index.ts:791-794
ExecutionTimedOut == Response(FALSE, "ExecutionTimedOut", <<>>, timeoutMs)
\* index.ts:826-829
SandboxError == Response(FALSE, "SandboxError", <<>>, 0)
\* errors thrown by the sandbox provider; the message of the second one
\* includes 'timed out'
ProviderError == Response(FALSE, "ProviderError", <<>>, 0)
ProviderTimedOut == Response(FALSE, "ProviderTimedOut", <<>>, 0)
\* index.ts:278-283, returned at 569-572
UnbalancedBraces == Response(FALSE, "UnbalancedBraces", <<>>, 0)

\* the phrases of the source text of each error template that the tests
\* and the documentation look for
Phrases(r) ==
  CASE r.tmpl = "ToolCallLimit" -> {"maximum tool call limit"}
    [] r.tmpl = "ExecutionTimedOut" -> {"Execution timed out after", "timed out"}
    [] r.tmpl = "CommandTimedOut" -> {"Command execution timed out after", "timed out"}
    [] r.tmpl = "UnbalancedBraces" -> {"unbalanced braces", "Missing"}
    [] r.tmpl = "Sentinel" /\ r.payload = <<"mToolErr">> -> {"Tool call error"}
    [] r.tmpl = "Sentinel" /\ r.payload = <<"mTimeout">> -> {"Tool request timeout", "timeout"}
    [] r.tmpl = "ProviderTimedOut" -> {"timed out"}
    [] OTHER -> {}

\* the error field is a JavaScript string (PTCExecuteError.error: string)
ErrorIsString(r) == ~(r.tmpl = "Sentinel" /\ r.payload = <<"m5">>)

\* ------------------------------------------------------------------ state
VARIABLES
  code,              \* options.code: "balanced" or "unbalanced" braces
  maxRecursionLimit, \* this.maxRecursionLimit
  pc,                \* position of execute()
  sandbox,           \* the local `sandbox`: "null" or "live"
  createCalls,       \* number of calls of Sandbox.create
  cmdPromise,        \* cmdPromise: "none", "pending", "resolved", "rejected"
  command,           \* the local `command` is set (not null)
  waitSt,            \* cmd.wait(): "none", "waiting", "done"
  timer,             \* the setTimeout of the race: "unset", "armed", "fired"
  timerWon,          \* the timer fired while executionPromise was pending
  stdoutBuffer,
  toolCallCount,
  finalResult,       \* Null or the last value assigned at 657 / 680
  completion,        \* completionPromise: [st, val]
  execution,         \* executionPromise: [st, val]
  result,            \* the value execute is about to return
  returned,          \* the value execute returned (pc = "returned")
  cmdKilled,         \* command.kill() has been called
  teardownThrew,     \* a kill of the teardown raised an error
  destroyedAfterKill,\* cmdKilled at the moment sandbox.kill() was called
  handlers,          \* the calls of handleToolRequest, in dispatch order
  proc,              \* the entry process: "none", "running", "exited", "killed"
  exitCode,
  out,               \* stdout that the process wrote and the host has not got
  ncalls,            \* number of __ptc_call invocations so far
  calls,             \* per invocation: [st, tool, args, errRead]
  reqFiles,          \* ids with a file /ptc/requests/<id>.json
  respFiles,         \* the files /ptc/responses/<id>.json: [id, success, tmpl]
  cache,             \* keys of /ptc/cache.json
  prints,            \* lines printed by the agent's own console.log
  optionsTools,      \* constructor: the names of options.tools, in order
  thisTools,         \* constructor: the names of this.tools, in order
  thisToolMap,       \* constructor: this.toolMap, from a name to the index in
                     \* options.tools of the tool it holds
  libPc,             \* which function runs on its own, and how far it is
  keyLog,            \* the cache keys computed so far: [tool, args, host, runtime]
  userCode,          \* generateMainFile: the source it is given
  cleanedCode,       \* generateMainFile: the source after the clean up
  braceCheck,        \* the value checkBraceBalance returned
  pollPc,            \* the poll loop of __ptc_call: "idle", "loop", "returned",
                     \* "threwTimeout"
  pollInterval,      \* the local pollInterval, in units of 1/TimeScale ms
  elapsed,           \* Date.now() - startTime, in the same units
  requestFile,       \* the request file of the polled call exists
  responseFile,      \* its response file: "absent", "partial", "success",
                     \* "error"
  peerToolCallCount  \* the local toolCallCount of another call of execute
                     \* on the same client, running at the same time

hostVars == <<pc, sandbox, createCalls, cmdPromise, command, waitSt,
              timer, timerWon, result, returned, teardownThrew, destroyedAfterKill>>
parseVars == <<stdoutBuffer, toolCallCount, finalResult>>
promiseVars == <<completion, execution>>
sbVars == <<proc, exitCode, out, ncalls, calls, reqFiles, cache, prints>>
\* the client as constructed and the functions that are run on their own
\* one run of the poll loop of __ptc_call, with its clock
pollVars == <<pollPc, pollInterval, elapsed, requestFile, responseFile>>
\* another call of execute on the same client
peerVars == <<peerToolCallCount>>
libVars == <<optionsTools, thisTools, thisToolMap, libPc, keyLog, userCode,
             cleanedCode, braceCheck, pollVars, peerVars>>
\* one call of execute
runVars == <<code, maxRecursionLimit, hostVars, parseVars, promiseVars, cmdKilled,
             handlers, respFiles, sbVars>>
vars == <<runVars, libVars>>

\* ------------------------------------------------------------------ tools
\* the tool map of the client (index.ts:28-35) and the names a program may
\* pass to __ptc_call
ToolMap == {"calc"}
\* the calls a program makes: valid arguments, arguments the schema
\* rejects, and a name that is not in the tool map
ProgramCalls == {<<"calc", "good">>, <<"calc", "bad">>, <<"nope", "good">>}
\* toolEntry.info.inputSchema.parse(request.args) returns (index.ts:482)
SchemaAccepts(tool, args) == args # "bad"

\* requestId of the i-th call: `${Date.now()}-${random}` (index.ts:132),
\* two characters long so that a chunk boundary can fall inside it
IdTok(i) == IF i = 1 THEN "1" ELSE IF i = 2 THEN "2" ELSE "3"
RequestId(i) == <<IdTok(i), "z">>

\* the invocations of __ptc_call in one run of the program
CallIds == 1..(MaxCalls + MaxRepeats)

NoCall ==
  [st |-> "unused", tool |-> "calc", args |-> "good", errRead |-> FALSE,
   loaded |-> {}]

Pending == [st |-> "pending", val |-> Null]

\* no brace check has run
NoBraceCheck == [balanced |-> TRUE, openCount |-> 0, closeCount |-> 0]

\* this.toolMap after the forEach of the constructor (index.ts:28-35): each
\* name is mapped to the last element of options.tools that has it
ToolMapOf(tools) ==
  [n \in { tools[i] : i \in 1..Len(tools) } |->
     CHOOSE i \in 1..Len(tools) :
       tools[i] = n /\ \A j \in 1..Len(tools) : tools[j] = n => j <= i]

\* the fields of new PTCClient({ tools: [calc] })
OneTool ==
  /\ optionsTools = <<"calc">>
  /\ thisTools = <<"calc">>
  /\ thisToolMap = ToolMapOf(<<"calc">>)

\* no poll loop is followed round by round
NoPoll ==
  /\ pollPc = "idle"
  /\ pollInterval = 0
  /\ elapsed = 0
  /\ requestFile = FALSE
  /\ responseFile = "absent"

\* the client of the executions
ClientReady ==
  /\ OneTool
  /\ NoPoll
  /\ libPc = "execute"
  /\ keyLog = <<>>
  /\ userCode = <<>>
  /\ cleanedCode = <<>>
  /\ braceCheck = NoBraceCheck

\* execute has not been called
NotStarted ==
  /\ pc = "create"
  /\ sandbox = "null"
  /\ createCalls = 0
  /\ cmdPromise = "none"
  /\ command = FALSE
  /\ waitSt = "none"
  /\ timer = "unset"
  /\ timerWon = FALSE
  /\ stdoutBuffer = <<>>
  /\ toolCallCount = 0
  /\ finalResult = Null
  /\ completion = Pending
  /\ execution = Pending
  /\ result = Null
  /\ returned = Null
  /\ cmdKilled = FALSE
  /\ teardownThrew = FALSE
  /\ destroyedAfterKill = FALSE
  /\ handlers = <<>>
  /\ proc = "none"
  /\ exitCode = 0
  /\ out = <<>>
  /\ ncalls = 0
  /\ calls = [i \in CallIds |-> NoCall]
  /\ reqFiles = {}
  /\ respFiles = {}
  /\ cache = {}
  /\ prints = 0
  /\ peerToolCallCount = 0

Init ==
  /\ code \in {"balanced", "unbalanced"}
  /\ maxRecursionLimit \in 0..MaxLimit
  /\ NotStarted
  /\ ClientReady

\* ------------------------------------------------------------------ promises
\* resolveCompletion(v) / rejectCompletion(e): a promise settles once
Settle(c, st, v) == IF c.st = "pending" THEN [st |-> st, val |-> v] ELSE c

\* executionPromise (index.ts:777-798): the race of completionPromise and
\* the timer, followed by the catch that maps a rejection whose message
\* includes 'timed out' to the timeout response and rethrows any other
RaceCatch(c) ==
  IF c.st = "resolved" THEN [st |-> "ok", val |-> c.val]
  ELSE IF c.st = "rejected" /\ "timed out" \in Phrases(c.val)
       THEN [st |-> "ok", val |-> ExecutionTimedOut]
  ELSE IF c.st = "rejected" THEN [st |-> "err", val |-> c.val]
  ELSE Pending

\* executionPromise after completionPromise became c
Raced(e, c) == IF e.st = "pending" THEN RaceCatch(c) ELSE e

\* the continuation of `await executionPromise` is a microtask: it runs
\* before the event loop takes the next task
Quiet == ~(pc = "await" /\ execution.st # "pending")
Running == pc # "returned" /\ Quiet

\* the process stops when the command (or the sandbox) is killed
KillProc(p) == IF p = "running" THEN "killed" ELSE p

\* ------------------------------------------------------------------ execute
\* index.ts:547-573: Sandbox.create, then generateIndexFile,
\* generateRuntimeFile and generateMainFile, which throws on unbalanced
\* braces.  A failure of create goes to the catch (command is null) and
\* the finally (sandbox is null): execute returns in the same task.
CreateAndAssemble(ok) ==
  /\ pc = "create"
  /\ createCalls' = createCalls + 1
  /\ IF ~ok
     THEN /\ pc' = "returned"
          /\ returned' = SandboxError
          /\ UNCHANGED <<sandbox, result>>
     ELSE /\ sandbox' = "live"
          /\ IF code = "unbalanced"
             THEN pc' = "destroy" /\ result' = UnbalancedBraces
             ELSE pc' = "provision" /\ UNCHANGED result
          /\ UNCHANGED returned
  /\ UNCHANGED <<libVars, code, maxRecursionLimit, timerWon, cmdPromise, command, waitSt,
                 timer, teardownThrew, destroyedAfterKill, parseVars,
                 promiseVars, cmdKilled, handlers, respFiles, sbVars>>

\* mutant of RaceTimer: no timer is set
RaceTimerNever(ms) == "unset"

\* index.ts:777-787: this.timeoutMs is a number (index.ts:25), so the race
\* is built and setTimeout called as soon as the command has been launched
RaceTimer(ms) == IF ms \in Nat THEN "armed" ELSE "unset"

\* index.ts:581-615, 776-801: the four files.write and the mkdir, then the
\* background commands.run, the timer and `await executionPromise`.  A
\* failure of a write or of mkdir goes to the catch with command = null.
Provision(ok) ==
  /\ pc = "provision"
  /\ IF ok
     THEN /\ pc' = "await"
          /\ cmdPromise' = "pending"
          /\ timer' = RaceTimer(timeoutMs)
          /\ UNCHANGED result
     ELSE /\ pc' = "destroy"
          /\ result' = SandboxError
          /\ UNCHANGED <<cmdPromise, timer>>
  /\ UNCHANGED <<libVars, code, maxRecursionLimit, sandbox, createCalls, command, waitSt,
                 timerWon, returned, teardownThrew, destroyedAfterKill, parseVars,
                 promiseVars, cmdKilled, handlers, respFiles, sbVars>>

\* index.ts:707-712: cmdPromise resolves with the handle of the started
\* process; the then-callback assigns `command` and calls cmd.wait()
CmdResolve ==
  /\ Running
  /\ cmdPromise = "pending"
  /\ cmdPromise' = "resolved"
  /\ command' = TRUE
  /\ waitSt' = "waiting"
  /\ proc' = "running"
  /\ UNCHANGED <<libVars, code, maxRecursionLimit, pc, sandbox, createCalls, timerWon,
                 timer, result, returned, teardownThrew, destroyedAfterKill,
                 parseVars, promiseVars, cmdKilled, handlers, respFiles,
                 exitCode, out, ncalls, calls, reqFiles, cache, prints>>

\* index.ts:770-774: commands.run rejects; err is the provider's error
CmdReject(err) ==
  /\ Running
  /\ cmdPromise = "pending"
  /\ cmdPromise' = "rejected"
  /\ LET c == IF finalResult = Null THEN Settle(completion, "rejected", err)
              ELSE completion
     IN  /\ completion' = c
         /\ execution' = Raced(execution, c)
  /\ UNCHANGED <<libVars, code, maxRecursionLimit, pc, sandbox, createCalls, timerWon,
                 command, waitSt, timer, result, returned, teardownThrew,
                 destroyedAfterKill, parseVars, cmdKilled, handlers, respFiles,
                 sbVars>>

\* index.ts:782-787 and 789-795: the timer fires, kills the command if the
\* handle is there, and rejects the race with 'Execution timed out'
Timeout ==
  /\ Running
  /\ timer = "armed"
  /\ timer' = "fired"
  /\ timerWon' = (execution.st = "pending")
  /\ cmdKilled' = (cmdKilled \/ command)
  /\ proc' = IF command THEN KillProc(proc) ELSE proc
  /\ execution' = IF execution.st = "pending"
                  THEN [st |-> "ok", val |-> ExecutionTimedOut]
                  ELSE execution
  /\ UNCHANGED <<libVars, code, maxRecursionLimit, pc, sandbox, createCalls,
                 cmdPromise, command, waitSt, result, returned, teardownThrew,
                 destroyedAfterKill, parseVars, completion, handlers, respFiles,
                 exitCode, out, ncalls, calls, reqFiles, cache, prints>>

\* index.ts:801-804 (result) and 813-818 (rejection): the continuation of
\* `await executionPromise` up to the next await
Resume ==
  /\ pc = "await"
  /\ execution.st # "pending"
  /\ result' = IF execution.st = "ok" THEN execution.val ELSE SandboxError
  /\ pc' = IF command THEN "killcmd" ELSE "destroy"
  /\ UNCHANGED <<libVars, code, maxRecursionLimit, sandbox, createCalls, timerWon,
                 cmdPromise, command, waitSt, timer, returned, teardownThrew,
                 destroyedAfterKill, parseVars, promiseVars, cmdKilled, handlers,
                 respFiles, sbVars>>

\* mutant of AfterTeardownKill: the error of the kill reaches the outer
\* catch
AfterTeardownKillPropagates(r, threw) == IF threw THEN SandboxError ELSE r

\* the value execute goes on with after `await command.kill()` of the
\* teardown returned or threw: the error is caught and logged (805-809,
\* 819-823)
AfterTeardownKill(r, threw) == r

\* index.ts:804-810 and 818-824
TeardownKill(threw) ==
  /\ pc = "killcmd"
  /\ Quiet
  /\ cmdKilled' = TRUE
  /\ proc' = KillProc(proc)
  /\ teardownThrew' = (teardownThrew \/ threw)
  /\ result' = AfterTeardownKill(result, threw)
  /\ pc' = "destroy"
  /\ UNCHANGED <<libVars, code, maxRecursionLimit, sandbox, createCalls, timerWon,
                 cmdPromise, command, waitSt, timer, returned,
                 destroyedAfterKill, parseVars, promiseVars, handlers, respFiles,
                 exitCode, out, ncalls, calls, reqFiles, cache, prints>>

\* the value execute returns after `await sandbox.kill()` of the finally
\* block returned or threw (830-842): the finally block has no return
AfterDestroy(r, threw) == r

\* index.ts:830-842, then the return of 812 / 826 / 569
DestroySandbox(threw) ==
  /\ pc = "destroy"
  /\ sandbox' = "killed"
  /\ proc' = KillProc(proc)
  /\ destroyedAfterKill' = cmdKilled
  /\ teardownThrew' = (teardownThrew \/ threw)
  /\ returned' = AfterDestroy(result, threw)
  /\ pc' = "returned"
  /\ UNCHANGED <<libVars, code, maxRecursionLimit, createCalls, timerWon, cmdPromise,
                 command, waitSt, timer, result, parseVars, promiseVars,
                 cmdKilled, handlers, respFiles, exitCode, out, ncalls, calls,
                 reqFiles, cache, prints>>

\* ------------------------------------------------------------------ onStdout
\* mutant of LimitExceeded: the check is off by one
LimitExceededOffByOne(count, limit) == count > limit + 1

\* index.ts:628: the safety check on the incremented counter
LimitExceeded(count, limit) == count > limit

\* mutant of CountRequest: the request is not counted
CountRequestNever(count) == count

\* index.ts:625: toolCallCount++
CountRequest(count) == count + 1

\* a fresh call of handleToolRequest(requestId, sandbox)
NewHandler(id) ==
  [id |-> id, st |-> "read", tool |-> "", args |-> "", invoked |-> FALSE,
   tmpl |-> "", wroteErr |-> FALSE, landed |-> FALSE]

\* mutant of FinalOutcome: a result that is null is not taken as a result
FinalOutcomeTruthy(p) ==
  IF JSONParses(p) /\ p # <<"null">> THEN FinalSuccess(p) ELSE FinalParseFailed

\* index.ts:652-672: the outcome the final branch resolves with
FinalOutcome(p) == IF JSONParses(p) THEN FinalSuccess(p) ELSE FinalParseFailed

\* index.ts:675-697: the outcome the error branch resolves with;
\* JSON.parse('null').message throws inside the try as well
ErrorOutcome(p) ==
  IF JSONParses(p) /\ p # <<"null">> THEN SentinelError(p) ELSE ErrorInSandbox

\* the callback is synchronous: one chunk is appended and the three
\* checks run on the buffer, each at most once (index.ts:617-699)
OnStdout(data) ==
  LET buf1 == stdoutBuffer \o data
      reqM == HasMatch(buf1, "R")
      cnt1 == IF reqM THEN CountRequest(toolCallCount) ELSE toolCallCount
      over == reqM /\ LimitExceeded(cnt1, maxRecursionLimit)
      buf2 == IF reqM /\ ~over THEN RemoveFirstRequest(buf1) ELSE buf1
      finM == ~over /\ HasMatch(buf2, "F")
      finO == IF finM THEN FinalOutcome(Capture(buf2, "F")) ELSE Null
      errM == ~over /\ HasMatch(buf2, "E")
      errO == IF errM THEN ErrorOutcome(Capture(buf2, "E")) ELSE Null
      c1 == IF over THEN Settle(completion, "resolved", LimitError(maxRecursionLimit))
            ELSE completion
      c2 == IF finM THEN Settle(c1, "resolved", finO) ELSE c1
      c3 == IF errM THEN Settle(c2, "resolved", errO) ELSE c2
      fr1 == IF finM /\ finO.success THEN finO ELSE finalResult
      fr2 == IF errM /\ errO.tmpl # "ErrorInSandbox" THEN errO ELSE fr1
      kill == command /\ (over \/ finM \/ errM)
  IN  /\ stdoutBuffer' = buf2
      /\ toolCallCount' = cnt1
      /\ handlers' = IF reqM /\ ~over
                     THEN Append(handlers, NewHandler(Capture(buf1, "R")))
                     ELSE handlers
      /\ finalResult' = fr2
      /\ completion' = c3
      /\ execution' = Raced(execution, c3)
      /\ cmdKilled' = (cmdKilled \/ kill)
      /\ proc' = IF kill THEN KillProc(proc) ELSE proc

\* mutant of CallbackFree: the callback awaits the handlers it dispatched
CallbackFreeAfterHandlers(hs) ==
  \A k \in 1..Len(hs) : hs[k].st \notin {"read", "invoking"}

\* index.ts:641-645: handleToolRequest(...).catch(...) is not awaited, so
\* the callback returns and the next one can run whatever the handlers hs
\* are doing
CallbackFree(hs) == TRUE

\* the provider hands the next part of the process's output to onStdout;
\* it cuts the stream into chunks wherever it likes
Deliver(n) ==
  /\ Running
  /\ CallbackFree(handlers)
  /\ cmdPromise = "resolved"
  /\ n \in 1..Len(out)
  /\ OnStdout(SubSeq(out, 1, n))
  /\ out' = SubSeq(out, n + 1, Len(out))
  /\ UNCHANGED <<libVars, code, maxRecursionLimit, hostVars, respFiles, exitCode, ncalls,
                 calls, reqFiles, cache, prints>>

\* mutant of CompletionResult: the exit code is not looked at
CompletionResultAnyExit(ec, buf) == NoFinalMarker(buf)

\* index.ts:720-748: what the completion handler resolves with when the
\* command ended with exit code ec and the buffer is buf
CompletionResult(ec, buf) ==
  IF ec # 0
  THEN IF HasMatch(buf, "E") /\ JSONParses(Capture(buf, "E"))
          /\ Capture(buf, "E") # <<"null">>
       THEN SentinelError(Capture(buf, "E"))
       ELSE Classified
  ELSE NoFinalMarker(buf)

\* index.ts:712-748: cmd.wait() returned with exit code ec
WaitDone(ec) ==
  /\ Running
  /\ waitSt = "waiting"
  /\ proc \in {"exited", "killed"}
  /\ proc = "exited" => ec = exitCode
  /\ proc = "killed" => ec # 0
  /\ waitSt' = "done"
  /\ LET v == CompletionResult(ec, stdoutBuffer)
         c == IF finalResult # Null THEN completion
              ELSE Settle(completion, "resolved", v)
     IN  /\ completion' = c
         /\ execution' = Raced(execution, c)
  /\ UNCHANGED <<libVars, code, maxRecursionLimit, pc, sandbox, createCalls, timerWon,
                 cmdPromise, command, timer, result, returned, teardownThrew,
                 destroyedAfterKill, parseVars, cmdKilled, handlers, respFiles,
                 sbVars>>

\* index.ts:749-769: cmd.wait() threw err
WaitReject(err) ==
  /\ Running
  /\ waitSt = "waiting"
  /\ waitSt' = "done"
  /\ LET v == IF "timed out" \in Phrases(err) THEN CommandTimedOut ELSE Classified
         c == IF finalResult # Null THEN completion
              ELSE Settle(completion, "resolved", v)
     IN  /\ completion' = c
         /\ execution' = Raced(execution, c)
  /\ UNCHANGED <<libVars, code, maxRecursionLimit, pc, sandbox, createCalls, timerWon,
                 cmdPromise, command, timer, result, returned, teardownThrew,
                 destroyedAfterKill, parseVars, cmdKilled, handlers, respFiles,
                 sbVars>>

\* ------------------------------------------------------------------ handleToolRequest
\* the call of __ptc_call whose request file is /ptc/requests/<id>.json
CallOf(id) == CHOOSE i \in CallIds : RequestId(i) = id

\* sandbox.files.write of /ptc/responses/<id>.json replaces the file
PutResponse(files, id, ok, tmpl) ==
  {f \in files : f.id # id} \cup {[id |-> id, success |-> ok, tmpl |-> tmpl]}

\* writeErrorResponse (index.ts:528-541); a failed write is only logged
ErrorResponded(h, tmpl, wrOk) ==
  [h EXCEPT !.st = "done", !.tmpl = tmpl, !.wroteErr = TRUE, !.landed = wrOk]

\* the error of the response that handler h writes when the tool is not
\* found (index.ts:475): it names request.tool and joins the keys of
\* this.toolMap
ResponseError(h) ==
  [tool |-> h.tool, available |-> IF h.tmpl = "NotFound" THEN ToolMap ELSE {}]

\* mutant of AfterRead: the tool is not looked up
AfterReadNoLookup(h, tool, args, wrOk) ==
  LET g == [h EXCEPT !.tool = tool, !.args = args]
  IN  IF ~SchemaAccepts(tool, args)
      THEN ErrorResponded(g, "InvalidArguments", wrOk)
      ELSE [g EXCEPT !.st = "invoking", !.invoked = TRUE]

\* mutant of AfterRead: the arguments are not validated
AfterReadUnvalidated(h, tool, args, wrOk) ==
  LET g == [h EXCEPT !.tool = tool, !.args = args]
  IN  IF tool \notin ToolMap THEN ErrorResponded(g, "NotFound", wrOk)
      ELSE [g EXCEPT !.st = "invoking", !.invoked = TRUE]

\* index.ts:472-505, after the request file was read: look the tool up,
\* validate the arguments, and only then invoke the tool
AfterRead(h, tool, args, wrOk) ==
  LET g == [h EXCEPT !.tool = tool, !.args = args]
  IN  IF tool \notin ToolMap THEN ErrorResponded(g, "NotFound", wrOk)
      ELSE IF ~SchemaAccepts(tool, args)
      THEN ErrorResponded(g, "InvalidArguments", wrOk)
      ELSE [g EXCEPT !.st = "invoking", !.invoked = TRUE]

\* the response file that a handler which is done has written
Written(files, h) ==
  IF h.st = "done" /\ h.landed
  THEN PutResponse(files, h.id, ~h.wroteErr, h.tmpl)
  ELSE files

\* tool.invoke(request.args) (index.ts:505) throws, returns a value that
\* JSON can carry, or returns undefined
ToolOutcomes == {"throws", "value", "undefined"}

\* JSON.stringify({ requestId, result: toolResult, success: true })
\* (index.ts:516) leaves out a result that is undefined
SuccessResponded(h, res) ==
  [h EXCEPT !.st = "done", !.landed = TRUE,
            !.tmpl = IF res = "undefined" THEN "noResult" ELSE "result"]

\* index.ts:464-505 and 519-522: sandbox.files.read of the request file
\* returns (rdOk) or throws, which the outer catch answers with an error
\* response; then lookup and validation, their error response (written if
\* wrOk), or the call of the tool's invoke
HRead(k, rdOk, wrOk) ==
  /\ Running
  /\ k \in 1..Len(handlers)
  /\ handlers[k].st = "read"
  /\ LET h == handlers[k]
         g == IF rdOk /\ h.id \in reqFiles
              THEN AfterRead(h, calls[CallOf(h.id)].tool, calls[CallOf(h.id)].args, wrOk)
              ELSE ErrorResponded(h, "FailedToProcess", wrOk)
     IN  /\ handlers' = [handlers EXCEPT ![k] = g]
         /\ respFiles' = Written(respFiles, g)
  /\ UNCHANGED <<libVars, code, maxRecursionLimit, hostVars, parseVars, promiseVars,
                 cmdKilled, sbVars>>

\* index.ts:505-522: invoke returned or threw (res); the response is
\* written; a failed write of the success response goes to the outer
\* catch, which writes an error response (written if wrOk2)
HInvoke(k, res, wrOk, wrOk2) ==
  /\ Running
  /\ k \in 1..Len(handlers)
  /\ handlers[k].st = "invoking"
  /\ LET h == handlers[k]
         g == IF res = "throws" THEN ErrorResponded(h, "ExecutionFailed", wrOk)
              ELSE IF wrOk THEN SuccessResponded(h, res)
              ELSE ErrorResponded(h, "FailedToProcess", wrOk2)
     IN  /\ handlers' = [handlers EXCEPT ![k] = g]
         /\ respFiles' = Written(respFiles, g)
  /\ UNCHANGED <<libVars, code, maxRecursionLimit, hostVars, parseVars, promiseVars,
                 cmdKilled, sbVars>>

\* ------------------------------------------------------------------ sandbox
\* getCacheKey(tool, args) (index.ts:93-97), the digest taken as injective
CacheKey(tool, args) == <<tool, args>>

Polling == {i \in CallIds : calls[i].st = "polling"}

\* __ptc_call up to the poll loop (index.ts:112-151): it loads the cache
\* file into its own copy (116-124); on a cache hit it returns; otherwise
\* it writes the request file and prints the sentinel
PtcCall(tool, args) ==
  /\ Running
  /\ proc = "running"
  /\ ncalls' = ncalls + 1
  /\ IF CacheKey(tool, args) \in cache
     THEN /\ calls' = [calls EXCEPT ![ncalls + 1] =
                [st |-> "cached", tool |-> tool, args |-> args, errRead |-> FALSE,
                 loaded |-> cache]]
          /\ UNCHANGED <<reqFiles, out>>
     ELSE /\ calls' = [calls EXCEPT ![ncalls + 1] =
                [st |-> "polling", tool |-> tool, args |-> args, errRead |-> FALSE,
                 loaded |-> cache]]
          /\ reqFiles' = reqFiles \cup {RequestId(ncalls + 1)}
          /\ out' = out \o <<"R">> \o RequestId(ncalls + 1) \o <<NL>>
  /\ UNCHANGED <<libVars, code, maxRecursionLimit, hostVars, parseVars, promiseVars,
                 cmdKilled, handlers, respFiles, proc, exitCode, cache, prints>>

\* the agent's code calls a tool
ProgCall(tool, args) == ncalls < MaxCalls /\ PtcCall(tool, args)

\* the agent's code calls the tool of its last call once more with the
\* same arguments, after that call has finished
ProgRepeat ==
  /\ ncalls >= 1
  /\ ncalls < MaxCalls + MaxRepeats
  /\ calls[ncalls].st # "polling"
  /\ PtcCall(calls[ncalls].tool, calls[ncalls].args)

\* arguments of the second of two parallel calls: those of the first call,
\* or other arguments that the schema accepts
ParallelCalls == {<<"calc", "good">>, <<"calc", "also">>}

\* the agent's code calls a tool while its last call is still polling
ProgParallel(tool, args) ==
  /\ ncalls >= 1
  /\ ncalls < MaxCalls + MaxRepeats
  /\ calls[ncalls].st = "polling"
  /\ PtcCall(tool, args)

\* cache[cacheKey] = response.result, then the cache file is written as
\* JSON.stringify(cache, null, 2) (index.ts:172-173), cache being the copy
\* that the call loaded at its start: a key whose value is undefined is
\* left out of the file
CacheWritten(file, key, f) == IF f.tmpl = "noResult" THEN file ELSE file \cup {key}

\* what __ptc_call does with a response that says success: false
\* (index.ts:165-169 inside the try of 160-189): the Error it throws is
\* caught by the catch of the same try, which sleeps and polls again
AfterErrorResponse(c) == [c EXCEPT !.errRead = TRUE]

\* one round of the poll loop that finds the response file (index.ts:159-189)
PollRead(i) ==
  /\ Running
  /\ proc = "running"
  /\ calls[i].st = "polling"
  /\ \E f \in respFiles :
       /\ f.id = RequestId(i)
       /\ IF f.success
          THEN /\ calls' = [calls EXCEPT ![i].st = "returned"]
               /\ cache' = CacheWritten(calls[i].loaded,
                                       CacheKey(calls[i].tool, calls[i].args), f)
               /\ reqFiles' = reqFiles \ {RequestId(i)}
               /\ respFiles' = respFiles \ {f}
               /\ UNCHANGED <<out, proc, exitCode>>
          ELSE /\ ~calls[i].errRead
               /\ calls' = [calls EXCEPT ![i] = AfterErrorResponse(@)]
               /\ IF calls'[i].st = "threwToolErr"
                  THEN /\ out' = out \o <<"E", "{", "mToolErr", "}", NL>>
                       /\ proc' = "exited"
                       /\ exitCode' = 1
                  ELSE UNCHANGED <<out, proc, exitCode>>
               /\ UNCHANGED <<cache, reqFiles, respFiles>>
  /\ UNCHANGED <<libVars, code, maxRecursionLimit, hostVars, parseVars, promiseVars,
                 cmdKilled, handlers, ncalls, prints>>

\* the 60 s budget of the poll loop is over (index.ts:158, 196-203): the
\* request file is removed and 'Tool request timeout' is thrown; the
\* agent's code catches it, or the try/catch of main.ts prints the error
\* sentinel and exits with status 1 (index.ts:295-299)
PollTimeout(i, caught) ==
  /\ Running
  /\ proc = "running"
  /\ calls[i].st = "polling"
  /\ calls' = [calls EXCEPT ![i].st = IF caught THEN "caughtTimeout"
                                     ELSE "threwTimeout"]
  /\ reqFiles' = reqFiles \ {RequestId(i)}
  /\ IF caught
     THEN UNCHANGED <<out, proc, exitCode>>
     ELSE /\ out' = out \o <<"E", "{", "mTimeout", "}", NL>>
          /\ proc' = "exited"
          /\ exitCode' = 1
  /\ UNCHANGED <<libVars, code, maxRecursionLimit, hostVars, parseVars, promiseVars,
                 cmdKilled, handlers, respFiles, ncalls, cache, prints>>

\* a value that JSON.stringify rejects: a circular structure
Circular == <<"circular">>

\* values the agent's code returns, as JSON text
ReturnValues == {<<"null">>, <<"1", "2">>, Circular}

\* main.ts, .catch of main().then(...) (index.ts:310-323): the message
\* that is printed for an error whose message is m
Classify(m) ==
  CASE m = "mToolErr" -> "mToolErr"
    [] m = "mTimeout" -> "mExecTimeout"
    [] OTHER -> "mRuntime"

\* main.ts: the agent's code returned v (index.ts:303-326); JSON.stringify
\* throws on a circular value before anything is printed, and the .catch
\* prints the error sentinel and exits
ProgReturn(v) ==
  /\ Running
  /\ proc = "running"
  /\ Polling = {}
  /\ out' = IF v = Circular
            THEN out \o <<"E", "{", Classify("mCircular"), "}", NL>>
            ELSE out \o <<"F">> \o v \o <<NL>>
  /\ proc' = "exited"
  /\ exitCode' = IF v = Circular THEN 1 ELSE 0
  /\ UNCHANGED <<libVars, code, maxRecursionLimit, hostVars, parseVars, promiseVars,
                 cmdKilled, handlers, respFiles, ncalls, calls, reqFiles, cache,
                 prints>>

\* main.ts: the agent's code threw a value whose message is m
\* (index.ts:295-299)
ProgThrow(m) ==
  /\ Running
  /\ proc = "running"
  /\ Polling = {}
  /\ out' = out \o <<"E", "{", m, "}", NL>>
  /\ proc' = "exited"
  /\ exitCode' = 1
  /\ UNCHANGED <<libVars, code, maxRecursionLimit, hostVars, parseVars, promiseVars,
                 cmdKilled, handlers, respFiles, ncalls, calls, reqFiles, cache,
                 prints>>

\* the process ends without a sentinel: tsx rejects the program, the
\* agent's code calls process.exit(ec), or it awaits a promise that never
\* settles and the event loop runs empty (exit code 0)
ProgExit(ec) ==
  /\ Running
  /\ proc = "running"
  /\ Polling = {}
  /\ proc' = "exited"
  /\ exitCode' = ec
  /\ UNCHANGED <<libVars, code, maxRecursionLimit, hostVars, parseVars, promiseVars,
                 cmdKilled, handlers, respFiles, out, ncalls, calls, reqFiles,
                 cache, prints>>

\* lines the agent's code prints itself with console.log
PrintLines ==
  { <<"F", "1", NL>>, <<"R", "9", "z", NL>>,
    <<"E", "{", "mUser", "}", NL>>, <<"E", "x", NL>> }

ProgPrint(line) ==
  /\ Running
  /\ proc = "running"
  /\ prints < MaxPrints
  /\ prints' = prints + 1
  /\ out' = out \o line
  /\ UNCHANGED <<libVars, code, maxRecursionLimit, hostVars, parseVars, promiseVars,
                 cmdKilled, handlers, respFiles, proc, exitCode, ncalls, calls,
                 reqFiles, cache>>

\* ------------------------------------------------------------------ spec
\* the steps of execute and of the provider when no provider call fails
HostSteps ==
  \/ CreateAndAssemble(TRUE)
  \/ Provision(TRUE)
  \/ CmdResolve
  \/ Timeout
  \/ Resume
  \/ TeardownKill(FALSE)
  \/ DestroySandbox(FALSE)
  \/ \E ec \in {0, 1} : WaitDone(ec)

\* the same steps when the provider call they make throws
ProviderFailures ==
  \/ CreateAndAssemble(FALSE)
  \/ Provision(FALSE)
  \/ \E err \in {ProviderError, ProviderTimedOut} : CmdReject(err)
  \/ \E err \in {ProviderError, ProviderTimedOut} : WaitReject(err)
  \/ TeardownKill(TRUE)
  \/ DestroySandbox(TRUE)

\* handleToolRequest; the provider's file calls and the tool may throw
HandlerSteps ==
  \/ \E k \in 1..Len(handlers), rdOk, wrOk \in BOOLEAN : HRead(k, rdOk, wrOk)
  \/ \E k \in 1..Len(handlers), res \in ToolOutcomes, wrOk, wrOk2 \in BOOLEAN :
       HInvoke(k, res, wrOk, wrOk2)

\* handleToolRequest when the provider's file calls succeed
HandlerStepsOk ==
  \/ \E k \in 1..Len(handlers) : HRead(k, TRUE, TRUE)
  \/ \E k \in 1..Len(handlers), res \in ToolOutcomes : HInvoke(k, res, TRUE, TRUE)

\* the entry program and the runtime in the sandbox
ProgramSteps ==
  \/ \E c \in ProgramCalls : ProgCall(c[1], c[2])
  \/ \E i \in CallIds : PollRead(i)
  \/ \E i \in CallIds, caught \in BOOLEAN : PollTimeout(i, caught)
  \/ \E v \in ReturnValues : ProgReturn(v)
  \/ \E m \in {"mUser", "m5"} : ProgThrow(m)
  \/ \E ec \in {0, 1} : ProgExit(ec)
  \/ \E line \in PrintLines : ProgPrint(line)

\* the provider hands over all the output the process has written so far
Next ==
  \/ HostSteps
  \/ ProviderFailures
  \/ HandlerSteps
  \/ ProgramSteps
  \/ Deliver(Len(out))

Spec == Init /\ [][Next]_vars

\* the provider cuts the output into chunks at any position; no provider
\* call fails
NextChunks ==
  \/ HostSteps
  \/ HandlerStepsOk
  \/ ProgramSteps
  \/ \E n \in 1..Len(out) : Deliver(n)

SpecChunks == Init /\ [][NextChunks]_vars

\* the timer fires when its time has come, and the provider calls that
\* execute awaits (command.kill, sandbox.kill) return or throw; nothing is
\* assumed of the sandbox program, of the tools or of the stdout callbacks
SpecLive ==
  /\ Init
  /\ [][Next]_vars
  /\ WF_vars(Timeout)
  /\ WF_vars(Resume)
  /\ WF_vars(\E threw \in BOOLEAN : TeardownKill(threw))
  /\ WF_vars(\E threw \in BOOLEAN : DestroySandbox(threw))

\* as Next, with a program that repeats a call
NextRepeat == Next \/ ProgRepeat

SpecRepeat == Init /\ [][NextRepeat]_vars

\* mutant of PeerCounts: the counter is a field of the client
PeerCountsShared(own, peer) ==
  [own |-> CountRequest(own), peer |-> CountRequest(peer)]

\* index.ts:602, 625: toolCallCount is a local of execute, so the callback
\* of another execution counts in the counter of that execution; own and
\* peer are the counters of this execution and of the other one
PeerCounts(own, peer) == [own |-> own, peer |-> CountRequest(peer)]

\* the onStdout callback of another execution of the same client gets a
\* request sentinel of its own sandbox
PeerRequest ==
  /\ Running
  /\ peerToolCallCount < MaxPeerRequests
  /\ toolCallCount' = PeerCounts(toolCallCount, peerToolCallCount).own
  /\ peerToolCallCount' = PeerCounts(toolCallCount, peerToolCallCount).peer
  /\ UNCHANGED <<optionsTools, thisTools, thisToolMap, libPc, keyLog, userCode,
                 cleanedCode, braceCheck, pollVars, code, maxRecursionLimit,
                 hostVars, stdoutBuffer, finalResult, promiseVars, cmdKilled,
                 handlers, respFiles, sbVars>>

\* as NextRepeat, with a second execution of the same client under way
NextPeer == NextRepeat \/ PeerRequest

SpecPeer == Init /\ [][NextPeer]_vars

\* a program with parallel awaits (Promise.all over two calls of callTool),
\* under a limit that its calls do not exceed; no provider call fails
InitParallel ==
  /\ code = "balanced"
  /\ maxRecursionLimit = MaxCalls + MaxRepeats
  /\ NotStarted
  /\ ClientReady

\* the program calls a tool, calls a second one before the first call has
\* returned, and returns a value when both calls are over; the agent's
\* code prints nothing itself
ParallelProgram ==
  \/ \E c \in ProgramCalls : ProgCall(c[1], c[2])
  \/ \E c \in ParallelCalls : ProgParallel(c[1], c[2])
  \/ \E i \in CallIds : PollRead(i)
  \/ \E i \in CallIds, caught \in BOOLEAN : PollTimeout(i, caught)
  \/ \E v \in ReturnValues : ProgReturn(v)

NextParallel ==
  \/ HostSteps
  \/ HandlerStepsOk
  \/ ParallelProgram
  \/ Deliver(Len(out))

SpecParallel == InitParallel /\ [][NextParallel]_vars

\* ------------------------------------------------------------------ cache key
\* number of properties of an object given as args
MaxKeys == 2
\* number of cache keys computed
MaxKeyCalls == 2

\* JSON values given as args: a number, or an object whose properties m are
\* in insertion order
Num(n) == [t |-> "num", n |-> n, m |-> <<>>]
Obj(m) == [t |-> "obj", n |-> 0, m |-> m]

\* the property lists with names in names and values in vals
Properties(names, vals) ==
  { m \in UNION { [1..len -> [k : names, v : vals]] : len \in 0..MaxKeys } :
      \A i, j \in 1..Len(m) : i # j => m[i].k # m[j].k }

InnerValues == { Num(1), Num(2) }
InnerObjects == { Obj(m) : m \in Properties({"a", "x"}, InnerValues) }
ArgsValues == { Obj(m) : m \in Properties({"a", "b"}, {Num(1)} \cup InnerObjects) }
ToolNames == {"t1", "t2"}

\* the order of property names as strings
KeyRank(k) == CASE k = "a" -> 1 [] k = "b" -> 2 [] k = "x" -> 3

\* Object.keys(v || {}): the own property names in insertion order; a
\* number has none
ObjectKeys(v) ==
  IF v.t = "obj" THEN [i \in 1..Len(v.m) |-> v.m[i].k] ELSE <<>>

\* Array.prototype.sort() of an array of distinct names
RECURSIVE SortNames(_)
SortNames(S) ==
  IF S = {} THEN <<>>
  ELSE LET k == CHOOSE k \in S : \A o \in S : KeyRank(k) <= KeyRank(o)
       IN  <<k>> \o SortNames(S \ {k})

Sort(keys) == SortNames({ keys[i] : i \in 1..Len(keys) })

\* the names as the array has them: an array kept in insertion order
Unsorted(keys) == keys

HasProperty(m, k) == \E i \in 1..Len(m) : m[i].k = k
GetProperty(m, k) == (CHOOSE i \in 1..Len(m) : m[i].k = k)

\* JSON.stringify(v, list) with an array as replacer: at every depth an
\* object is written with the names of list that it has, in the order of
\* list, and its other properties are left out
RECURSIVE Stringify(_, _)
RECURSIVE StringifyMembers(_, _, _, _)
StringifyMembers(m, list, i, first) ==
  IF i > Len(list) THEN <<>>
  ELSE IF ~HasProperty(m, list[i]) THEN StringifyMembers(m, list, i + 1, first)
  ELSE (IF first THEN <<>> ELSE <<",">>)
       \o <<list[i], ":">>
       \o Stringify(m[GetProperty(m, list[i])].v, list)
       \o StringifyMembers(m, list, i + 1, FALSE)

Stringify(v, list) ==
  IF v.t = "num" THEN <<ToString(v.n)>>
  ELSE <<"{">> \o StringifyMembers(v.m, list, 1, TRUE) \o <<"}">>

\* utils/cache-key.ts with the array left in insertion order
generateCacheKeyUnsorted(tool, args) ==
  <<tool, ":">> \o Stringify(args, Unsorted(ObjectKeys(args)))

\* utils/cache-key.ts: the key is the digest of `${tool}:${normalized}`; the
\* digest is one-to-one, so the key is modelled by the text that is digested
generateCacheKey(tool, args) ==
  <<tool, ":">> \o Stringify(args, Sort(ObjectKeys(args)))

\* the same function in the generated runtime (index.ts:93-97)
getCacheKey(tool, args) ==
  <<tool, ":">> \o Stringify(args, Sort(ObjectKeys(args)))

\* the client is not executing anything
Idle ==
  /\ code = "balanced"
  /\ maxRecursionLimit = 0
  /\ NotStarted

\* one call is keyed, by the library function and by the runtime
ComputeKey(tool, args) ==
  /\ libPc = "key"
  /\ Len(keyLog) < MaxKeyCalls
  /\ keyLog' = Append(keyLog, [tool |-> tool, args |-> args,
                               host |-> generateCacheKey(tool, args),
                               runtime |-> getCacheKey(tool, args)])
  /\ UNCHANGED <<runVars, peerVars, pollVars, optionsTools, thisTools, thisToolMap, libPc,
                 userCode, cleanedCode, braceCheck>>

InitKey ==
  /\ Idle
  /\ NoPoll
  /\ OneTool
  /\ libPc = "key"
  /\ keyLog = <<>>
  /\ userCode = <<>>
  /\ cleanedCode = <<>>
  /\ braceCheck = NoBraceCheck

NextKey == \E tool \in ToolNames, args \in ArgsValues : ComputeKey(tool, args)

SpecKey == InitKey /\ [][NextKey]_vars

\* ------------------------------------------------------------------ generateMainFile
\* Source text is a sequence of tokens:
\*   "IMP"    an import statement:   import { a } from 'b';
\*   "MAIN{"  the head of a wrapper: async function main() {
\*   "EXP"    the export statement:  export default main();
\*   "nl"     a newline (the white space of the model)
\*   "dq"     a double quote      "bs"  a backslash
\*   "{" "}"  braces              "x"   any other character
\* number of tokens of a source, and of the body of a wrapped source
MaxSource == 4
\* number of characters of a source made of braces, quotes and backslashes
MaxBraceSource == 7

SourceTokens == {"x", "{", "}", "nl", "dq", "bs", "IMP", "MAIN{", "EXP"}
BraceTokens == {"{", "}", "dq", "bs"}
Quotes == {"dq", "sq", "bt"}

Texts(tokens, n) == UNION { [1..len -> tokens] : len \in 0..n }

\* async function main() { <body> } followed by export default main();
Wrapped(body) == <<"MAIN{">> \o body \o <<"}", "nl", "EXP">>

\* the values of options.code
Sources ==
  Texts(SourceTokens, MaxSource)
    \cup { Wrapped(body) : body \in Texts(SourceTokens, MaxSource) }
    \cup Texts(BraceTokens, MaxBraceSource)

\* \s* from position i: the first position at or after i that is not white
\* space, or Len(s) + 1
RECURSIVE SkipSpace(_, _)
SkipSpace(s, i) ==
  IF i > Len(s) THEN Len(s) + 1
  ELSE IF s[i] = "nl" THEN SkipSpace(s, i + 1)
  ELSE i

\* s.replace(/<statement>;?\s*/g, ''): every statement is removed with the
\* white space that follows it
RECURSIVE RemoveStatements(_, _, _)
RemoveStatements(s, statement, i) ==
  IF i > Len(s) THEN <<>>
  ELSE IF s[i] = statement
       THEN RemoveStatements(s, statement, SkipSpace(s, i + 1))
       ELSE <<s[i]>> \o RemoveStatements(s, statement, i + 1)

\* \}\s*$ with the m flag, the brace at j: the last position of the match,
\* or 0 if there is none.  $ is at the end of the text or before a newline,
\* so \s* takes all the white space at the end of the text and otherwise
\* all but the last newline of the white space after the brace
WrapperEnd(s, j) ==
  LET e == SkipSpace(s, j + 1)
  IN  IF e > Len(s) THEN Len(s)
      ELSE IF e > j + 1 THEN e - 2
      ELSE 0

\* the matches of /async\s+function\s+main\s*\([^)]*\)\s*\{([\s\S]*?)\}\s*$/m
WrapperMatches(s) ==
  { p \in (1..Len(s)) \X (1..Len(s)) :
      /\ p[1] < p[2]
      /\ s[p[1]] = "MAIN{"
      /\ s[p[2]] = "}"
      /\ WrapperEnd(s, p[2]) # 0 }

\* .replace(<wrapper>, '$1') without the g flag: the leftmost match, with
\* the shortest group 1 (the group is lazy), is replaced by group 1
UnwrapMain(s) ==
  IF WrapperMatches(s) = {} THEN s
  ELSE LET p == CHOOSE p \in WrapperMatches(s) :
                  \A q \in WrapperMatches(s) :
                    p[1] < q[1] \/ (p[1] = q[1] /\ p[2] <= q[2])
       IN  SubSeq(s, 1, p[1] - 1)
             \o SubSeq(s, p[1] + 1, p[2] - 1)
             \o SubSeq(s, WrapperEnd(s, p[2]) + 1, Len(s))

\* String.prototype.trim
RECURSIVE TrimEnd(_)
TrimEnd(s) ==
  IF Len(s) > 0 /\ s[Len(s)] = "nl" THEN TrimEnd(SubSeq(s, 1, Len(s) - 1)) ELSE s

Trim(s) == TrimEnd(SubSeq(s, SkipSpace(s, 1), Len(s)))

\* index.ts:255-264: the clean up of the source
CleanUp(s) ==
  Trim(RemoveStatements(UnwrapMain(RemoveStatements(s, "IMP", 1)), "EXP", 1))

\* the characters of a token, for the scan of checkBraceBalance: "w" is a
\* character that is neither a quote, a backslash nor a brace
Chars(token) ==
  CASE token = "IMP" -> <<"w", "sq", "w", "sq", "w">>
    [] token = "MAIN{" -> <<"w", "{">>
    [] token = "EXP" -> <<"w">>
    [] OTHER -> <<token>>

RECURSIVE Characters(_)
Characters(s) ==
  IF s = <<>> THEN <<>> ELSE Chars(Head(s)) \o Characters(Tail(s))

\* the loop of checkBraceBalance (index.ts:217-238) from character i
RECURSIVE ScanBraces(_, _, _, _, _, _)
ScanBraces(c, i, inString, stringChar, openBraces, closeBraces) ==
  IF i > Len(c)
  THEN [balanced |-> openBraces = closeBraces,
        openCount |-> openBraces, closeCount |-> closeBraces]
  ELSE LET char == c[i]
           prevChar == IF i > 1 THEN c[i - 1] ELSE ""
       IN  IF char \in Quotes /\ prevChar # "bs"
           THEN IF ~inString
                THEN ScanBraces(c, i + 1, TRUE, char, openBraces, closeBraces)
                ELSE IF char = stringChar
                THEN ScanBraces(c, i + 1, FALSE, "", openBraces, closeBraces)
                ELSE ScanBraces(c, i + 1, inString, stringChar, openBraces, closeBraces)
           ELSE IF inString
           THEN ScanBraces(c, i + 1, inString, stringChar, openBraces, closeBraces)
           ELSE ScanBraces(c, i + 1, inString, stringChar,
                           openBraces + (IF char = "{" THEN 1 ELSE 0),
                           closeBraces + (IF char = "}" THEN 1 ELSE 0))

\* index.ts:211-245
checkBraceBalance(s) == ScanBraces(Characters(s), 1, FALSE, "", 0, 0)

\* index.ts:275-283: the parts of the message of the error
BraceMessage(check) ==
  LET difference == check.openCount - check.closeCount
  IN  [open |-> check.openCount,
       close |-> check.closeCount,
       missingType |-> IF difference > 0 THEN "closing" ELSE "opening",
       count |-> IF difference < 0 THEN -difference ELSE difference]

\* generateMainFile: the clean up (index.ts:255-264)
Sanitize ==
  /\ libPc = "source"
  /\ cleanedCode' = CleanUp(userCode)
  /\ libPc' = "cleaned"
  /\ UNCHANGED <<runVars, peerVars, pollVars, optionsTools, thisTools, thisToolMap, keyLog,
                 userCode, braceCheck>>

\* generateMainFile: the brace check (index.ts:266-284); the source is
\* embedded in main.ts or the error is thrown
CheckBraces ==
  /\ libPc = "cleaned"
  /\ braceCheck' = checkBraceBalance(cleanedCode)
  /\ libPc' = IF braceCheck'.balanced THEN "embedded" ELSE "threw"
  /\ UNCHANGED <<runVars, peerVars, pollVars, optionsTools, thisTools, thisToolMap, keyLog,
                 userCode, cleanedCode>>

InitMain ==
  /\ Idle
  /\ NoPoll
  /\ OneTool
  /\ libPc = "source"
  /\ keyLog = <<>>
  /\ userCode \in Sources
  /\ cleanedCode = <<>>
  /\ braceCheck = NoBraceCheck

NextMain == Sanitize \/ CheckBraces

SpecMain == InitMain /\ [][NextMain]_vars

\* ------------------------------------------------------------------ constructor
\* number of tools given to the constructor
MaxTools == 4

\* the names of the tools given to a constructor
OptionNames == {"calc", "search", "fetch"}

\* constructor (index.ts:20-36): this.tools has one ToolInfo per element of
\* options.tools, and this.toolMap.set(name, ...) keeps, for a name, the
\* element that was set last
Construct ==
  /\ libPc = "new"
  /\ thisTools' = [i \in 1..Len(optionsTools) |-> optionsTools[i]]
  /\ thisToolMap' = ToolMapOf(optionsTools)
  /\ libPc' = "constructed"
  /\ UNCHANGED <<runVars, peerVars, pollVars, optionsTools, keyLog, userCode, cleanedCode,
                 braceCheck>>

InitConstruct ==
  /\ Idle
  /\ NoPoll
  /\ optionsTools \in UNION { [1..len -> OptionNames] : len \in 0..MaxTools }
  /\ thisTools = <<>>
  /\ thisToolMap = <<>>
  /\ libPc = "new"
  /\ keyLog = <<>>
  /\ userCode = <<>>
  /\ cleanedCode = <<>>
  /\ braceCheck = NoBraceCheck

NextConstruct == Construct

SpecConstruct == InitConstruct /\ [][NextConstruct]_vars

\* ------------------------------------------------------------------ poll loop
\* The loop of __ptc_call (index.ts:153-204) round by round.  Time is
\* counted in units of 1/TimeScale ms, so that every value that
\* pollInterval * 1.5 takes below the cap is a whole number.
TimeScale == 2048
\* index.ts:154
maxWaitTime == 60000
\* index.ts:156: let pollInterval = 10
FirstInterval == 10
\* index.ts:187, 193: the cap of Math.min(pollInterval * 1.5, 1000)
IntervalCap == 1000

\* mutant of NextInterval: the interval is not capped
NextIntervalUncapped(p) == (p * 3) \div 2

\* index.ts:187, 193: pollInterval = Math.min(pollInterval * 1.5, 1000)
NextInterval(p) ==
  IF (p * 3) \div 2 < IntervalCap * TimeScale
  THEN (p * 3) \div 2
  ELSE IntervalCap * TimeScale

\* the host's handler writes the response file; the runtime can see it
\* before it is complete
HostWrites(content) ==
  /\ pollPc = "loop"
  /\ \/ responseFile = "absent"
     \/ responseFile = "partial" /\ content # "partial"
  /\ responseFile' = content
  /\ UNCHANGED <<runVars, peerVars, optionsTools, thisTools, thisToolMap, libPc, keyLog,
                 userCode, cleanedCode, braceCheck, pollPc, pollInterval,
                 elapsed, requestFile>>

\* one round of the while loop (index.ts:158-194): a response that parses
\* and says success is taken, the two files are unlinked and the call
\* returns; with no file, with a file that does not parse, and with a
\* response that says success: false (the throw of 168 is caught at 184),
\* the round sleeps and the interval grows
PollRound ==
  /\ pollPc = "loop"
  /\ elapsed < maxWaitTime * TimeScale
  /\ IF responseFile = "success"
     THEN /\ pollPc' = "returned"
          /\ requestFile' = FALSE
          /\ responseFile' = "absent"
          /\ UNCHANGED <<pollInterval, elapsed>>
     ELSE /\ elapsed' = elapsed + pollInterval
          /\ pollInterval' = NextInterval(pollInterval)
          /\ UNCHANGED <<pollPc, requestFile, responseFile>>
  /\ UNCHANGED <<runVars, peerVars, optionsTools, thisTools, thisToolMap, libPc, keyLog,
                 userCode, cleanedCode, braceCheck>>

\* the budget is used up (index.ts:158, 196-203): the request file is
\* unlinked and 'Tool request timeout' is thrown
PollGiveUp ==
  /\ pollPc = "loop"
  /\ elapsed >= maxWaitTime * TimeScale
  /\ requestFile' = FALSE
  /\ pollPc' = "threwTimeout"
  /\ UNCHANGED <<runVars, peerVars, optionsTools, thisTools, thisToolMap, libPc, keyLog,
                 userCode, cleanedCode, braceCheck, pollInterval, elapsed,
                 responseFile>>

\* __ptc_call has written its request file and printed the sentinel
\* (index.ts:148-156)
InitPoll ==
  /\ Idle
  /\ OneTool
  /\ libPc = "poll"
  /\ keyLog = <<>>
  /\ userCode = <<>>
  /\ cleanedCode = <<>>
  /\ braceCheck = NoBraceCheck
  /\ pollPc = "loop"
  /\ pollInterval = FirstInterval * TimeScale
  /\ elapsed = 0
  /\ requestFile = TRUE
  /\ responseFile = "absent"

NextPoll ==
  \/ \E content \in {"partial", "success", "error"} : HostWrites(content)
  \/ PollRound
  \/ PollGiveUp

\* the loop is code of one process: its next round always comes
SpecPoll ==
  InitPoll /\ [][NextPoll]_vars /\ WF_vars(PollRound) /\ WF_vars(PollGiveUp)

\* ------------------------------------------------------------------ claims

\* C1: the number of tool requests the host dispatches (calls of
\* handleToolRequest) never exceeds maxRecursionLimit, whatever the
\* process prints and however the provider cuts it into chunks.
C1_DispatchesWithinLimit == Len(handlers) <= maxRecursionLimit

\* C1 witness: the counter went over the limit after the host had
\* dispatched as many requests as the limit allows
C1_LimitHit ==
  /\ maxRecursionLimit >= 1
  /\ toolCallCount > maxRecursionLimit
  /\ Len(handlers) = maxRecursionLimit

\* C2: execute returns {success:true, result} or {success:false, error}
\* with error a string, for every program and every provider failure.
C2_ReturnsResultOrStringError ==
  pc = "returned" => (returned.success \/ ErrorIsString(returned))

\* C3: the tool's invoke is called only for a known tool whose arguments
\* the input schema accepted; a request whose arguments fail validation
\* is answered with a success:false response and the tool is not invoked.
C3_InvokeOnlyAfterValidation ==
  \A k \in 1..Len(handlers) :
    LET h == handlers[k]
    IN  /\ h.invoked => h.tool \in ToolMap /\ SchemaAccepts(h.tool, h.args)
        /\ (h.st = "done" /\ h.tmpl = "InvalidArguments") =>
             /\ ~h.invoked
             /\ h.wroteErr
             /\ h.landed => \E f \in respFiles : f.id = h.id /\ ~f.success

\* C3 witness: a request with invalid arguments was handled and its error
\* response is in the sandbox
C3_ValidationFailed ==
  \E k \in 1..Len(handlers) :
    /\ handlers[k].st = "done"
    /\ handlers[k].tmpl = "InvalidArguments"
    /\ handlers[k].landed

\* C4: when the runtime reads a success:false response for its request,
\* __ptc_call throws 'Tool call error: ...' to the program, without
\* waiting for the poll budget to run out.
C4_ErrorResponseIsThrown ==
  \A i \in 1..MaxCalls : calls[i].errRead => calls[i].st = "threwToolErr"

\* C5: when the program called a tool with arguments that fail validation
\* and did not catch the error of that call, the error that execute
\* returns from the program's error sentinel is the tool call error, not
\* a timeout.
C5_InvalidArgumentsReported ==
  (/\ pc = "returned"
   /\ returned.tmpl = "Sentinel"
   /\ \E i \in 1..MaxCalls :
        calls[i].args = "bad" /\ calls[i].errRead /\ calls[i].st # "caughtTimeout")
    => (~returned.success /\ "Tool call error" \in Phrases(returned))

\* C6: when the recursion limit resolved the execution, execute returns
\* success:false with an error that contains 'maximum iteration limit'
\* and the limit, and the command was killed.
C6_LimitErrorNamesIterationLimit ==
  (pc = "returned" /\ completion.st = "resolved"
     /\ completion.val = LimitError(maxRecursionLimit)
     /\ execution.val = completion.val)
    => /\ ~returned.success
       /\ "maximum iteration limit" \in Phrases(returned)
       /\ returned.n = maxRecursionLimit
       /\ cmdKilled

\* C7: when assembly fails on unbalanced braces, execute returns the
\* error without a sandbox having been created.
C7_NoSandboxOnAssemblyFailure ==
  (pc = "returned" /\ returned = UnbalancedBraces) => createCalls = 0

\* C8: on every path on which the entry command was launched, the
\* command is killed and then the sandbox is destroyed before execute
\* returns.
C8_CommandKilledThenSandboxDestroyed ==
  (pc = "returned" /\ cmdPromise = "resolved")
    => (cmdKilled /\ sandbox = "killed" /\ destroyedAfterKill)

\* C9: an error raised by command.kill() or sandbox.kill() during teardown
\* never changes the value execute returns: it is the value the execution
\* resolved to (or the sandbox error of the rejection, or the assembly
\* error) before teardown.
C9_TeardownErrorsDoNotChangeResult ==
  pc = "returned" =>
    /\ execution.st = "ok" => returned = execution.val
    /\ execution.st = "err" => returned = SandboxError
    /\ (execution.st = "pending" /\ code = "unbalanced" /\ sandbox = "killed")
         => returned = UnbalancedBraces

\* C9 witness: the kill of the teardown threw and execute returned the
\* successful result it had
C9_TeardownThrewAfterSuccess ==
  pc = "returned" /\ teardownThrew /\ returned.success

\* C10: when the timer fires before the execution is resolved, the
\* command is killed and execute returns the 'Execution timed out after
\* <timeoutMs>ms' error, whatever arrives afterwards.
C10_TimeoutKillsAndReports ==
  (pc = "returned" /\ timerWon /\ cmdPromise = "resolved")
    => /\ cmdKilled
       /\ returned = ExecutionTimedOut
       /\ "Execution timed out after" \in Phrases(returned)
       /\ returned.n = timeoutMs

\* the number of sentinels of one kind that the host has seen: the final
\* and the error sentinels are never removed from stdoutBuffer
Observed(marker) == Cardinality(MatchPositions(stdoutBuffer, marker))

\* the results that onStdout derives from a final or an error sentinel
FinalTmpls == {"result", "FailedToParseFinal"}
ErrorTmpls == {"Sentinel", "UnknownError", "ErrorInSandbox"}

\* C11: once the timer has fired on a pending execution, the stream
\* callback is a no-op: no later step increments the tool-call counter or
\* dispatches a request to handleToolRequest.
C11_StreamCallbacksNoOpAfterTimeout ==
  [][timerWon => (toolCallCount' = toolCallCount
                    /\ Len(handlers') = Len(handlers))]_vars

\* C12: when execute returns success:true, the host has seen exactly one
\* final sentinel and no error sentinel on stdout.
C12_SuccessMeansOneFinalNoError ==
  (pc = "returned" /\ returned.success)
    => (Observed("F") = 1 /\ Observed("E") = 0)

\* C13: when the host has seen a final sentinel and a parseable error
\* sentinel and one of them decided the result, it is the one that
\* arrived first.
C13_FirstTerminatingSentinelDecides ==
  (/\ pc = "returned"
   /\ HasMatch(stdoutBuffer, "F")
   /\ HasMatch(stdoutBuffer, "E")
   /\ JSONParses(Capture(stdoutBuffer, "E"))
   /\ returned.tmpl \in FinalTmpls \cup ErrorTmpls)
    => (returned.tmpl \in FinalTmpls
          <=> FirstMatch(stdoutBuffer, "F") < FirstMatch(stdoutBuffer, "E"))

\* C14: with a limit of at least one, when a final sentinel stands in the
\* host's buffer before a request sentinel, the result that execute
\* returns is never the limit error of that request.
C14_TerminatingSentinelBeatsLaterRequest ==
  (/\ pc = "returned"
   /\ maxRecursionLimit >= 1
   /\ HasMatch(stdoutBuffer, "F")
   /\ HasMatch(stdoutBuffer, "R")
   /\ FirstMatch(stdoutBuffer, "F") < FirstMatch(stdoutBuffer, "R"))
    => returned.tmpl # "ToolCallLimit"

\* C15: when the program printed a parseable error sentinel and exited
\* with a non-zero status, execute never returns the classifier's output,
\* in whatever order the stdout callback and the completion of wait() run.
C15_ErrorSentinelBeatsExitStatus ==
  (/\ pc = "returned"
   /\ proc = "exited"
   /\ exitCode # 0
   /\ HasMatch(stdoutBuffer \o out, "E")
   /\ IsMessageObject(Capture(stdoutBuffer \o out, "E")))
    => returned.tmpl # "Classified"

\* C16: an error sentinel whose payload is not parseable JSON never
\* resolves the execution from the stdout callback.
C16_UnparseableErrorFallsThrough == completion.val # ErrorInSandbox

\* the exit status that wait() reports is not zero: the process exited
\* with a non-zero code or was killed
ExitedNonZero == proc = "killed" \/ exitCode # 0

\* C17: when wait() returns while the execution is unresolved, the
\* completion handler resolves it with success:false: with the classifier's
\* message on a non-zero exit when no error sentinel is in the host's
\* stdout buffer, and on a zero exit without a final sentinel with the
\* message that carries the first 1000 characters of that buffer; unless
\* the timer fired first, this is the value execute returns.
C17_CompletionWithoutSentinel ==
  /\ [][(waitSt = "waiting" /\ waitSt' = "done" /\ completion.st = "pending")
          => /\ completion'.st = "resolved"
             /\ ~completion'.val.success
             /\ (ExitedNonZero /\ ~HasMatch(stdoutBuffer, "E"))
                  => completion'.val = Classified
             /\ (~ExitedNonZero /\ ~HasMatch(stdoutBuffer, "F"))
                  => /\ completion'.val.tmpl = "NoFinalMarker"
                     /\ completion'.val.payload
                          = Substring(stdoutBuffer, StdoutShown)]_vars
  /\ [](( /\ pc = "returned"
          /\ ~timerWon
          /\ completion.st = "resolved"
          /\ completion.val.tmpl \in {"Classified", "NoFinalMarker"})
         => returned = completion.val)

\* C17 witness: the process ended with a non-zero status without an error
\* sentinel and execute returned the classifier's message
C17_ClassifierReturned ==
  /\ pc = "returned"
  /\ proc = "exited"
  /\ exitCode # 0
  /\ ~HasMatch(stdoutBuffer, "E")
  /\ returned = Classified

\* the request ids that the sandbox has emitted: those of the runtime's
\* requests and the one of the request line that the agent's code prints
EmittedIds ==
  {RequestId(i) : i \in {j \in CallIds : j <= ncalls /\ calls[j].st # "cached"}}
    \cup {<<"9", "z">>}

\* the calls of handleToolRequest whose write of a response file succeeded
Responded == {k \in 1..Len(handlers) : handlers[k].st = "done" /\ handlers[k].landed}

\* C18: the host writes a response file only for a request id that the
\* sandbox emitted, and at most once for each id.
C18_OneResponsePerEmittedId ==
  /\ \A k \in Responded : handlers[k].id \in EmittedIds
  /\ \A k1, k2 \in Responded : handlers[k1].id = handlers[k2].id => k1 = k2

\* __ptc_call has returned or thrown
Finished(c) == c.st \in {"returned", "caughtTimeout", "threwTimeout", "threwToolErr"}

\* C19: once __ptc_call has read the response of its request and has
\* finished, the response file is gone, for a success response and for an
\* error response alike.
C19_ResponseFileRemovedAfterRead ==
  \A i \in CallIds :
    ((calls[i].st = "returned" \/ calls[i].errRead) /\ Finished(calls[i]))
      => ~(\E f \in respFiles : f.id = RequestId(i))

RECURSIVE SameValue(_, _)
SameValue(x, y) ==
  /\ x.t = y.t
  /\ x.t = "num" => x.n = y.n
  /\ x.t = "obj" =>
       /\ \A i \in 1..Len(x.m) : HasProperty(y.m, x.m[i].k)
       /\ \A j \in 1..Len(y.m) : HasProperty(x.m, y.m[j].k)
       /\ \A i \in 1..Len(x.m) :
            SameValue(x.m[i].v, y.m[GetProperty(y.m, x.m[i].k)].v)

C22_KeyDistinguishesCalls ==
  \A i, j \in 1..Len(keyLog) :
    (keyLog[i].tool # keyLog[j].tool \/ ~SameValue(keyLog[i].args, keyLog[j].args))
      => /\ keyLog[i].host # keyLog[j].host
         /\ keyLog[i].runtime # keyLog[j].runtime

\* the braces outside string literals: a quote opens a string, the same
\* quote closes it, and inside a string a backslash escapes the character
\* that follows it.  side is "{" or "}"
RECURSIVE BracesOutsideStrings(_, _, _, _, _)
BracesOutsideStrings(c, i, quote, escaped, side) ==
  IF i > Len(c) THEN 0
  ELSE IF quote # "" /\ escaped
  THEN BracesOutsideStrings(c, i + 1, quote, FALSE, side)
  ELSE IF quote # "" /\ c[i] = "bs"
  THEN BracesOutsideStrings(c, i + 1, quote, TRUE, side)
  ELSE IF quote # ""
  THEN BracesOutsideStrings(c, i + 1, IF c[i] = quote THEN "" ELSE quote, FALSE, side)
  ELSE IF c[i] \in Quotes
  THEN BracesOutsideStrings(c, i + 1, c[i], FALSE, side)
  ELSE (IF c[i] = side THEN 1 ELSE 0)
         + BracesOutsideStrings(c, i + 1, "", FALSE, side)

OpenOutside(s) == BracesOutsideStrings(Characters(s), 1, "", FALSE, "{")
CloseOutside(s) == BracesOutsideStrings(Characters(s), 1, "", FALSE, "}")

\* every string literal is closed and no backslash is outside a string
RECURSIVE StringsClosed(_, _, _, _)
StringsClosed(c, i, quote, escaped) ==
  IF i > Len(c) THEN quote = ""
  ELSE IF quote # "" /\ escaped THEN StringsClosed(c, i + 1, quote, FALSE)
  ELSE IF quote # "" /\ c[i] = "bs" THEN StringsClosed(c, i + 1, quote, TRUE)
  ELSE IF quote # ""
  THEN StringsClosed(c, i + 1, IF c[i] = quote THEN "" ELSE quote, FALSE)
  ELSE IF c[i] \in Quotes THEN StringsClosed(c, i + 1, c[i], FALSE)
  ELSE c[i] # "bs" /\ StringsClosed(c, i + 1, "", FALSE)

\* C23: the sanitized source is rejected for unbalanced braces exactly
\* when the numbers of { and of } outside string literals differ, and the
\* message then gives both numbers, the side that is missing and how many.
\* Stated for sources whose string literals are all closed and that have
\* no backslash outside a string literal.
C23_BraceErrorExact ==
  (libPc \in {"embedded", "threw"}
     /\ StringsClosed(Characters(cleanedCode), 1, "", FALSE)) =>
    LET open == OpenOutside(cleanedCode)
        close == CloseOutside(cleanedCode)
    IN  /\ (libPc = "threw") <=> (open # close)
        /\ libPc = "threw" =>
             BraceMessage(braceCheck) =
               [open |-> open, close |-> close,
                missingType |-> IF open > close THEN "closing" ELSE "opening",
                count |-> IF open > close THEN open - close ELSE close - open]

\* the tokens that the clean up looks for
Removable == {"IMP", "MAIN{", "EXP"}

HasRemovable(s) == \E i \in 1..Len(s) : s[i] \in Removable

\* the source is Wrapped(body) for some body
IsWrapped(s) ==
  /\ Len(s) >= 4
  /\ s[1] = "MAIN{"
  /\ SubSeq(s, Len(s) - 2, Len(s)) = <<"}", "nl", "EXP">>

BodyOf(s) == SubSeq(s, 2, Len(s) - 3)

\* the blocks of s are nested properly: from position i at depth d, no
\* brace closes a block that is not open and every block is closed
RECURSIVE Nested(_, _, _)
Nested(s, i, d) ==
  IF i > Len(s) THEN d = 0
  ELSE IF s[i] = "{" THEN Nested(s, i + 1, d + 1)
  ELSE IF s[i] = "}" THEN d > 0 /\ Nested(s, i + 1, d - 1)
  ELSE Nested(s, i + 1, d)

\* a body of statements and properly nested blocks, without quotes
PlainBody(s) ==
  /\ \A i \in 1..Len(s) : s[i] \in {"x", "{", "}", "nl"}
  /\ Nested(s, 1, 0)

\* the text without its white space
WithoutSpace(s) == SelectSeq(s, LAMBDA t : t # "nl")

\* C24: a source that is a main wrapper around a body, followed by the
\* export statement, is sanitized to exactly the body, nested blocks whose
\* closing brace ends a line included.  Stated up to white space: the
\* sanitized source has the characters of the body, in the same order.
C24_WrapperSanitizedToBody ==
  (libPc # "source" /\ IsWrapped(userCode) /\ PlainBody(BodyOf(userCode)))
    => WithoutSpace(cleanedCode) = WithoutSpace(BodyOf(userCode))

\* position i of s is inside a string literal
RECURSIVE InString(_, _, _, _, _)
InString(s, i, j, quoted, escaped) ==
  IF j = i THEN quoted
  ELSE IF quoted /\ escaped THEN InString(s, i, j + 1, TRUE, FALSE)
  ELSE IF quoted /\ s[j] = "bs" THEN InString(s, i, j + 1, TRUE, TRUE)
  ELSE IF s[j] = "dq" THEN InString(s, i, j + 1, ~quoted, FALSE)
  ELSE InString(s, i, j + 1, quoted, FALSE)

\* C25: the clean up does not rewrite the contents of a string literal: a
\* source in which every import statement, wrapper head and export
\* statement is inside a string literal, and every string literal is
\* closed, keeps all of its text (the white space around it apart).
C25_StringLiteralsUntouched ==
  (libPc # "source"
     /\ ~InString(userCode, Len(userCode) + 1, 1, FALSE, FALSE)
     /\ \A i \in 1..Len(userCode) :
          userCode[i] \in Removable => InString(userCode, i, 1, FALSE, FALSE))
    => cleanedCode = Trim(userCode)

\* C26: the clean up is idempotent, and a source without import statement,
\* wrapper or export statement is returned as it is (the white space around
\* it apart).
C26_SanitizerIdempotent ==
  libPc # "source" =>
    /\ CleanUp(cleanedCode) = cleanedCode
    /\ ~HasRemovable(userCode) => cleanedCode = Trim(userCode)

\* the text the program prints in a step
Printed == SubSeq(out', Len(out) + 1, Len(out'))

\* the program ends in a step, of its own accord
ProgramEnds == proc = "running" /\ proc' = "exited"

\* the messages of errors as the entry program classifies them
ThrownMessages == {"mToolErr", "mTimeout", "mUser", "m5", "mCircular"}
ClassifiedMessages == { Classify(m) : m \in ThrownMessages }

\* C27: when the agent's code throws, the entry program prints the error
\* sentinel with a classified message and exits with a non-zero status: a
\* 'Tool call error:' message as it is, a 'Tool request timeout' message
\* with the timeout prefix, any other message with 'Runtime error:'.
C27_ThrownErrorClassified ==
  [][(ProgramEnds /\ Printed # <<>> /\ Printed[1] = "E")
       => (exitCode' # 0 /\ Printed[3] \in ClassifiedMessages)]_vars

\* the terminating sentinels in a text
Terminating(s) == { i \in 1..Len(s) : s[i] \in {"F", "E"} }

\* C28: the entry program emits exactly one terminating sentinel per
\* execution, the final one or the error one, never both and never
\* neither: a program that printed nothing itself and that ends of its own
\* accord prints exactly one of them as it ends.
C28_ExactlyOneTerminatingSentinel ==
  [][(ProgramEnds /\ prints = 0) => Cardinality(Terminating(Printed)) = 1]_vars

\* two elements of a list of tools have the same name
HasDuplicate(tools) ==
  \E i, j \in 1..Len(tools) : i # j /\ tools[i] = tools[j]

\* C29: constructing a client with two tools of the same name fails, and a
\* constructed client never holds two ToolInfo records with the same name.
C29_DuplicateNamesRejected ==
  libPc = "constructed" =>
    /\ ~HasDuplicate(optionsTools)
    /\ ~HasDuplicate(thisTools)

\* C30: the tool-call counter is incremented for a request sentinel before
\* the host dispatches that request: in the callback that starts
\* handleToolRequest for the k-th sentinel the counter has been incremented,
\* is at least k and is not above maxRecursionLimit.
C30_CountedBeforeDispatch ==
  [][Len(handlers') > Len(handlers)
       => /\ toolCallCount' = toolCallCount + 1
          /\ toolCallCount' >= Len(handlers')
          /\ toolCallCount' <= maxRecursionLimit]_vars

\* handleToolRequest has been started for a counted request
C30_Dispatched ==
  /\ Len(handlers) >= 1
  /\ toolCallCount >= Len(handlers)
  /\ handlers[Len(handlers)].st # "read"

\* C31: a request that names a tool that is not in the tool map gets a
\* success:false response whose error names the requested tool and lists
\* the available tool names, and no tool is invoked for it.
C31_UnknownToolAnswered ==
  \A k \in 1..Len(handlers) :
    LET h == handlers[k]
    IN  (h.st # "read" /\ h.id \in { RequestId(i) : i \in CallIds }
           /\ h.tmpl # "FailedToProcess"
           /\ calls[CallOf(h.id)].tool \notin ToolMap) =>
          /\ ~h.invoked
          /\ h.st = "done"
          /\ h.tmpl = "NotFound"
          /\ ResponseError(h) = [tool |-> calls[CallOf(h.id)].tool,
                                 available |-> ToolMap]
          /\ \E f \in respFiles : f.id = h.id /\ ~f.success /\ f.tmpl = "NotFound"

\* a request for a tool that is not in the tool map was handled and its
\* response is in the sandbox
C31_UnknownToolHandled ==
  \E k \in 1..Len(handlers) :
    /\ handlers[k].st = "done"
    /\ handlers[k].tmpl = "NotFound"
    /\ handlers[k].tool = "nope"
    /\ \E f \in respFiles : f.id = handlers[k].id

\* the program ran code that calls no tool, prints nothing and returns no
\* value: all it wrote is the final sentinel with null
EmptyCodeRan ==
  /\ ncalls = 0
  /\ prints = 0
  /\ stdoutBuffer \o out = <<"F", "null", NL>>

HandlerPending == \E k \in 1..Len(handlers) : handlers[k].st \in {"read", "invoking"}

\* C33: processing a tool request does not block stdout parsing: while a
\* dispatched call of handleToolRequest is pending, the callback for the
\* next stdout chunk is free to run and the timer can fire, and the callback acts
\* on what the chunk brings: a request sentinel is counted, and a final or
\* error sentinel settles completionPromise.
C33_DispatchDoesNotBlockParsing ==
  /\ []((HandlerPending /\ Running)
          => /\ CallbackFree(handlers)
             /\ timer = "armed" => ENABLED Timeout)
  /\ [][(HandlerPending /\ out' # out /\ Len(out') < Len(out))
          => /\ (HasMatch(stdoutBuffer \o SubSeq(out, 1, Len(out) - Len(out')), "R")
                   => toolCallCount' = toolCallCount + 1)
             /\ ((HasMatch(stdoutBuffer', "F") \/ HasMatch(stdoutBuffer', "E"))
                   => completion'.st # "pending")]_vars

\* a terminating sentinel was parsed, and the timer fired, while a tool
\* invocation was pending on the host
C33_ParsedWhilePending ==
  /\ \E k \in 1..Len(handlers) : handlers[k].st = "invoking"
  /\ finalResult # Null
  /\ timer = "fired"

\* the request sentinels the process has printed, when the agent's code
\* printed nothing itself: one for each call that missed the cache
SentinelsPrinted ==
  Cardinality({ i \in CallIds : calls[i].st \notin {"unused", "cached"} })

\* C34: a consumed request sentinel is stripped from the buffer, so each
\* request sentinel that the sandbox prints triggers at most one dispatch
\* and at most one increment of the counter, however many chunks follow.
C34_SentinelTriggersOnce ==
  prints = 0 =>
    /\ Len(handlers) <= SentinelsPrinted
    /\ toolCallCount <= SentinelsPrinted

\* C35: the polling of the runtime ends: with a complete response that is
\* read, or after the budget of 60 s with the request file deleted and the
\* 'Tool request timeout' error thrown; a response file that does not parse
\* yet makes the runtime poll again; the poll interval starts at 10 ms,
\* never decreases and never exceeds 1000 ms.
C35_PollingEnds ==
  /\ <>(pollPc \in {"returned", "threwTimeout"})
  /\ [][pollPc' = "returned" => responseFile = "success"]_vars
  /\ [][(pollPc = "loop" /\ pollPc' = "threwTimeout")
          => (elapsed >= maxWaitTime * TimeScale /\ ~requestFile')]_vars
  /\ [][(responseFile = "partial" /\ elapsed' # elapsed) => pollPc' = "loop"]_vars
  /\ [](pollPc = "loop" =>
          /\ pollInterval >= FirstInterval * TimeScale
          /\ pollInterval <= IntervalCap * TimeScale)
  /\ [](elapsed = 0 => pollInterval = FirstInterval * TimeScale)
  /\ [][pollInterval' >= pollInterval]_vars

\* the budget ran out with the interval at its cap, the response file
\* still incomplete
C35_TimedOutAtCap ==
  /\ pollPc = "threwTimeout"
  /\ ~requestFile
  /\ responseFile = "partial"
  /\ pollInterval = IntervalCap * TimeScale

\* C36: the provider's cuts of the stdout stream do not show in the result:
\* every request id that is dispatched is an id the sandbox emitted on a
\* whole line, and a final result that execute takes from the final
\* sentinel carries a whole payload that main.ts printed (here, with the
\* agent's code printing no sentinel of its own, one of ReturnValues).
C36_ChunkingDoesNotShow ==
  prints = 0 =>
    /\ \A k \in 1..Len(handlers) : handlers[k].id \in EmittedIds
    /\ (finalResult # Null /\ finalResult.success)
         => finalResult.payload \in ReturnValues

\* the text s holds the request sentinel of call i
SentinelIn(s, i) ==
  \E n \in 1..(Len(s) - 2) : SubSeq(s, n, n + 2) = <<"R">> \o RequestId(i)

\* the request sentinel of call i is in the buffer after a callback, not
\* dispatched, with the counter below the limit and the execution open
SentinelWaits(i) ==
  /\ execution.st = "pending"
  /\ calls[i].st = "polling"
  /\ toolCallCount < maxRecursionLimit
  /\ SentinelIn(stdoutBuffer, i)

\* handleToolRequest was called with the id of call i
Dispatched(i) == \E k \in 1..Len(handlers) : handlers[k].id = RequestId(i)

\* C37: a request sentinel that has reached the host while the execution
\* is open, within the limit, is dispatched before the execution is
\* resolved with the process dead and no output left to deliver (after
\* which no callback can dispatch it), also when it came in one chunk with
\* another request sentinel.
C37_SentinelDispatchedBeforeEnd ==
  [][\A i \in CallIds :
       (/\ SentinelWaits(i)
        /\ out = <<>>
        /\ execution'.st # "pending"
        /\ proc' # "running"
        /\ out' = <<>>)
         => Dispatched(i)']_vars

\* C38: within one execution the cache file only grows: a key that is in
\* /ptc/cache.json stays in it, whatever callTool invocation writes the
\* file next (the tools here return a value, so that every write stores a
\* result).
C38_CacheOnlyGrows ==
  [][(\A f \in respFiles : f.tmpl # "noResult") => cache \subseteq cache']_vars

\* the request sentinel of call i is nowhere: not in the output, not in
\* the buffer, and no request file and no handler carry its id
NoSentinelOf(i) ==
  /\ RequestId(i) \notin reqFiles
  /\ ~Dispatched(i)
  /\ ~SentinelIn(out, i)
  /\ ~SentinelIn(stdoutBuffer, i)

\* C39: when the sandbox prints at most maxRecursionLimit request
\* sentinels (one for each call that missed the cache, and at most one for
\* each line the agent's code prints itself), the counter stays within the
\* limit and the execution is not failed with the limit error; a call that
\* is answered from the cache prints no sentinel; the requests of another
\* execution of the same client do not count here.
C39_WithinLimitNeverFails ==
  /\ (SentinelsPrinted + prints <= maxRecursionLimit) =>
       /\ toolCallCount <= SentinelsPrinted + prints
       /\ completion.val # LimitError(maxRecursionLimit)
       /\ execution.val # LimitError(maxRecursionLimit)
       /\ returned # LimitError(maxRecursionLimit)
  /\ \A i \in CallIds : calls[i].st = "cached" => NoSentinelOf(i)

\* an execution that used its whole limit and then was served from the
\* cache has returned a result, with another execution counting meanwhile
C39_CachedCallNotCounted ==
  /\ pc = "returned"
  /\ returned.success
  /\ maxRecursionLimit = 1
  /\ toolCallCount = 1
  /\ peerToolCallCount = 1
  /\ \E i \in CallIds : calls[i].st = "cached"

\* C40: once the entry command has been launched, execute returns, whatever
\* the sandbox program and the tools do.
C40_ExecuteReturns == (pc = "await") ~> (pc = "returned")

\* execute returned the timeout error for a program that printed nothing
\* and did not exit
C40_ReturnedBySilentTimeout ==
  /\ pc = "returned"
  /\ timerWon
  /\ returned = ExecutionTimedOut
  /\ proc = "killed"
  /\ stdoutBuffer = <<>>
  /\ out = <<>>
  /\ ncalls = 0
  /\ prints = 0

====
